---- MODULE Spec2Model ----
(***************************************************************************)
(* Model of sync_master_manifest_to_db.py: the per-row normalisation of    *)
(* parse_manifest_xlsx and the upsert loop of main against the             *)
(* tl_manifest_items table.                                                *)
(*                                                                         *)
(* Text is a sequence of characters, each a string.  A printable ASCII     *)
(* character other than the grave accent stands for itself, the tab, line  *)
(* feed, carriage return and form feed are written "\t", "\n", "\r" and    *)
(* "\f", and every other character is written by its code point in four or *)
(* more hexadecimal digits, as in "U+00A0" or "U+2003".                    *)
(*                                                                         *)
(* A float is an IEEE double.  A finite one is the record                  *)
(* [k |-> "fin", neg, m, e] of value (-1)^neg * m * 2^e, where m is an odd *)
(* natural below 2^53 kept as its decimal digits, the least significant    *)
(* first, and e >= -1074; zero has m = <<>> and e = 0 and keeps its sign.  *)
(* The kinds "inf", "ninf" and "nan" are the specials.  float(), int(),    *)
(* str() and the arithmetic of the code round as the double arithmetic of  *)
(* CPython does.  An int the code produces is a TLA+ integer, so a         *)
(* quantity needs less than 2^31.                                          *)
(***************************************************************************)
EXTENDS Integers, Sequences, FiniteSets, TLC

VARIABLES
    orders_map,   \* order id -> aggregate, as load_orders returns it
    order_id,     \* the order of the manifest being parsed
    row,          \* the cells of the data row, by canonical field
    norm_pc,      \* "row", then "emitted", "skipped" or "raised"
    rec,          \* the record the parser appended
    exc,          \* the exception that left the parser
    recleaned,    \* the emitted UPC, cleaned once more
    manifests,    \* the manifest files in sorted order: [order_id, rows]
    all_rows,     \* main: the records to upsert
    store,        \* tl_manifest_items as committed
    work,         \* tl_manifest_items as the open transaction sees it
    idx,          \* main: position of the upsert loop in all_rows
    pc,           \* main: "start", "upsert", "retry", "verify", "done", "crashed"
    inserted,     \* main: inserted
    errors,       \* main: errors
    attempts,     \* per record of this run, the executes attempted
    succeeded,    \* the records of this run whose execute returned
    run,          \* number of the run of main
    summaries,    \* the run summaries printed so far
    prev_store,   \* store as the preceding run left it
    failures      \* sink errors raised so far

rowVars == <<order_id, row, norm_pc, rec, exc, recleaned>>
syncVars == <<manifests, all_rows, store, work, idx, pc, inserted, errors,
              attempts, succeeded, run, summaries, prev_store, failures>>
vars == <<orders_map, order_id, row, norm_pc, rec, exc, recleaned,
          manifests, all_rows, store, work, idx, pc, inserted, errors,
          attempts, succeeded, run, summaries, prev_store, failures>>

(***************************************************************************)
(* Bounds of the model.                                                    *)
(***************************************************************************)
MaxUpcLen == 4
MaxNum == 2
MaxCost == 2
MaxMsrp == 2
MaxBatch == 3
MaxRuns == 2
MaxFailures == 3

(***************************************************************************)
(* Characters and text.                                                    *)
(***************************************************************************)
DigitChars == <<"0", "1", "2", "3", "4", "5", "6", "7", "8", "9">>
UpperChars == <<"A", "B", "C", "D", "E", "F", "G", "H", "I", "J", "K", "L", "M",
                "N", "O", "P", "Q", "R", "S", "T", "U", "V", "W", "X", "Y", "Z">>
LowerChars == <<"a", "b", "c", "d", "e", "f", "g", "h", "i", "j", "k", "l", "m",
                "n", "o", "p", "q", "r", "s", "t", "u", "v", "w", "x", "y", "z">>

\* the decimal digits of Unicode 14.0 (category Nd) beyond 0-9, which \D of
\* a str pattern keeps and float() reads, by their value: the Arabic-Indic
\* digits U+0660 to U+0669 first, the other scripts in code point order
Zeros == {
    "U+0660", "U+06F0", "U+07C0", "U+0966", "U+09E6", "U+0A66", "U+0AE6",
    "U+0B66", "U+0BE6", "U+0C66", "U+0CE6", "U+0D66", "U+0DE6", "U+0E50",
    "U+0ED0", "U+0F20", "U+1040", "U+1090", "U+17E0", "U+1810", "U+1946",
    "U+19D0", "U+1A80", "U+1A90", "U+1B50", "U+1BB0", "U+1C40", "U+1C50",
    "U+A620", "U+A8D0", "U+A900", "U+A9D0", "U+A9F0", "U+AA50", "U+ABF0",
    "U+FF10", "U+104A0", "U+10D30", "U+11066", "U+110F0", "U+11136",
    "U+111D0", "U+112F0", "U+11450", "U+114D0", "U+11650", "U+116C0",
    "U+11730", "U+118E0", "U+11950", "U+11C50", "U+11D50", "U+11DA0",
    "U+16A60", "U+16AC0", "U+16B50", "U+1D7CE", "U+1D7D8", "U+1D7E2",
    "U+1D7EC", "U+1D7F6", "U+1E140", "U+1E2F0", "U+1E950", "U+1FBF0"}

Ones == {
    "U+0661", "U+06F1", "U+07C1", "U+0967", "U+09E7", "U+0A67", "U+0AE7",
    "U+0B67", "U+0BE7", "U+0C67", "U+0CE7", "U+0D67", "U+0DE7", "U+0E51",
    "U+0ED1", "U+0F21", "U+1041", "U+1091", "U+17E1", "U+1811", "U+1947",
    "U+19D1", "U+1A81", "U+1A91", "U+1B51", "U+1BB1", "U+1C41", "U+1C51",
    "U+A621", "U+A8D1", "U+A901", "U+A9D1", "U+A9F1", "U+AA51", "U+ABF1",
    "U+FF11", "U+104A1", "U+10D31", "U+11067", "U+110F1", "U+11137",
    "U+111D1", "U+112F1", "U+11451", "U+114D1", "U+11651", "U+116C1",
    "U+11731", "U+118E1", "U+11951", "U+11C51", "U+11D51", "U+11DA1",
    "U+16A61", "U+16AC1", "U+16B51", "U+1D7CF", "U+1D7D9", "U+1D7E3",
    "U+1D7ED", "U+1D7F7", "U+1E141", "U+1E2F1", "U+1E951", "U+1FBF1"}

Twos == {
    "U+0662", "U+06F2", "U+07C2", "U+0968", "U+09E8", "U+0A68", "U+0AE8",
    "U+0B68", "U+0BE8", "U+0C68", "U+0CE8", "U+0D68", "U+0DE8", "U+0E52",
    "U+0ED2", "U+0F22", "U+1042", "U+1092", "U+17E2", "U+1812", "U+1948",
    "U+19D2", "U+1A82", "U+1A92", "U+1B52", "U+1BB2", "U+1C42", "U+1C52",
    "U+A622", "U+A8D2", "U+A902", "U+A9D2", "U+A9F2", "U+AA52", "U+ABF2",
    "U+FF12", "U+104A2", "U+10D32", "U+11068", "U+110F2", "U+11138",
    "U+111D2", "U+112F2", "U+11452", "U+114D2", "U+11652", "U+116C2",
    "U+11732", "U+118E2", "U+11952", "U+11C52", "U+11D52", "U+11DA2",
    "U+16A62", "U+16AC2", "U+16B52", "U+1D7D0", "U+1D7DA", "U+1D7E4",
    "U+1D7EE", "U+1D7F8", "U+1E142", "U+1E2F2", "U+1E952", "U+1FBF2"}

Threes == {
    "U+0663", "U+06F3", "U+07C3", "U+0969", "U+09E9", "U+0A69", "U+0AE9",
    "U+0B69", "U+0BE9", "U+0C69", "U+0CE9", "U+0D69", "U+0DE9", "U+0E53",
    "U+0ED3", "U+0F23", "U+1043", "U+1093", "U+17E3", "U+1813", "U+1949",
    "U+19D3", "U+1A83", "U+1A93", "U+1B53", "U+1BB3", "U+1C43", "U+1C53",
    "U+A623", "U+A8D3", "U+A903", "U+A9D3", "U+A9F3", "U+AA53", "U+ABF3",
    "U+FF13", "U+104A3", "U+10D33", "U+11069", "U+110F3", "U+11139",
    "U+111D3", "U+112F3", "U+11453", "U+114D3", "U+11653", "U+116C3",
    "U+11733", "U+118E3", "U+11953", "U+11C53", "U+11D53", "U+11DA3",
    "U+16A63", "U+16AC3", "U+16B53", "U+1D7D1", "U+1D7DB", "U+1D7E5",
    "U+1D7EF", "U+1D7F9", "U+1E143", "U+1E2F3", "U+1E953", "U+1FBF3"}

Fours == {
    "U+0664", "U+06F4", "U+07C4", "U+096A", "U+09EA", "U+0A6A", "U+0AEA",
    "U+0B6A", "U+0BEA", "U+0C6A", "U+0CEA", "U+0D6A", "U+0DEA", "U+0E54",
    "U+0ED4", "U+0F24", "U+1044", "U+1094", "U+17E4", "U+1814", "U+194A",
    "U+19D4", "U+1A84", "U+1A94", "U+1B54", "U+1BB4", "U+1C44", "U+1C54",
    "U+A624", "U+A8D4", "U+A904", "U+A9D4", "U+A9F4", "U+AA54", "U+ABF4",
    "U+FF14", "U+104A4", "U+10D34", "U+1106A", "U+110F4", "U+1113A",
    "U+111D4", "U+112F4", "U+11454", "U+114D4", "U+11654", "U+116C4",
    "U+11734", "U+118E4", "U+11954", "U+11C54", "U+11D54", "U+11DA4",
    "U+16A64", "U+16AC4", "U+16B54", "U+1D7D2", "U+1D7DC", "U+1D7E6",
    "U+1D7F0", "U+1D7FA", "U+1E144", "U+1E2F4", "U+1E954", "U+1FBF4"}

Fives == {
    "U+0665", "U+06F5", "U+07C5", "U+096B", "U+09EB", "U+0A6B", "U+0AEB",
    "U+0B6B", "U+0BEB", "U+0C6B", "U+0CEB", "U+0D6B", "U+0DEB", "U+0E55",
    "U+0ED5", "U+0F25", "U+1045", "U+1095", "U+17E5", "U+1815", "U+194B",
    "U+19D5", "U+1A85", "U+1A95", "U+1B55", "U+1BB5", "U+1C45", "U+1C55",
    "U+A625", "U+A8D5", "U+A905", "U+A9D5", "U+A9F5", "U+AA55", "U+ABF5",
    "U+FF15", "U+104A5", "U+10D35", "U+1106B", "U+110F5", "U+1113B",
    "U+111D5", "U+112F5", "U+11455", "U+114D5", "U+11655", "U+116C5",
    "U+11735", "U+118E5", "U+11955", "U+11C55", "U+11D55", "U+11DA5",
    "U+16A65", "U+16AC5", "U+16B55", "U+1D7D3", "U+1D7DD", "U+1D7E7",
    "U+1D7F1", "U+1D7FB", "U+1E145", "U+1E2F5", "U+1E955", "U+1FBF5"}

Sixes == {
    "U+0666", "U+06F6", "U+07C6", "U+096C", "U+09EC", "U+0A6C", "U+0AEC",
    "U+0B6C", "U+0BEC", "U+0C6C", "U+0CEC", "U+0D6C", "U+0DEC", "U+0E56",
    "U+0ED6", "U+0F26", "U+1046", "U+1096", "U+17E6", "U+1816", "U+194C",
    "U+19D6", "U+1A86", "U+1A96", "U+1B56", "U+1BB6", "U+1C46", "U+1C56",
    "U+A626", "U+A8D6", "U+A906", "U+A9D6", "U+A9F6", "U+AA56", "U+ABF6",
    "U+FF16", "U+104A6", "U+10D36", "U+1106C", "U+110F6", "U+1113C",
    "U+111D6", "U+112F6", "U+11456", "U+114D6", "U+11656", "U+116C6",
    "U+11736", "U+118E6", "U+11956", "U+11C56", "U+11D56", "U+11DA6",
    "U+16A66", "U+16AC6", "U+16B56", "U+1D7D4", "U+1D7DE", "U+1D7E8",
    "U+1D7F2", "U+1D7FC", "U+1E146", "U+1E2F6", "U+1E956", "U+1FBF6"}

Sevens == {
    "U+0667", "U+06F7", "U+07C7", "U+096D", "U+09ED", "U+0A6D", "U+0AED",
    "U+0B6D", "U+0BED", "U+0C6D", "U+0CED", "U+0D6D", "U+0DED", "U+0E57",
    "U+0ED7", "U+0F27", "U+1047", "U+1097", "U+17E7", "U+1817", "U+194D",
    "U+19D7", "U+1A87", "U+1A97", "U+1B57", "U+1BB7", "U+1C47", "U+1C57",
    "U+A627", "U+A8D7", "U+A907", "U+A9D7", "U+A9F7", "U+AA57", "U+ABF7",
    "U+FF17", "U+104A7", "U+10D37", "U+1106D", "U+110F7", "U+1113D",
    "U+111D7", "U+112F7", "U+11457", "U+114D7", "U+11657", "U+116C7",
    "U+11737", "U+118E7", "U+11957", "U+11C57", "U+11D57", "U+11DA7",
    "U+16A67", "U+16AC7", "U+16B57", "U+1D7D5", "U+1D7DF", "U+1D7E9",
    "U+1D7F3", "U+1D7FD", "U+1E147", "U+1E2F7", "U+1E957", "U+1FBF7"}

Eights == {
    "U+0668", "U+06F8", "U+07C8", "U+096E", "U+09EE", "U+0A6E", "U+0AEE",
    "U+0B6E", "U+0BEE", "U+0C6E", "U+0CEE", "U+0D6E", "U+0DEE", "U+0E58",
    "U+0ED8", "U+0F28", "U+1048", "U+1098", "U+17E8", "U+1818", "U+194E",
    "U+19D8", "U+1A88", "U+1A98", "U+1B58", "U+1BB8", "U+1C48", "U+1C58",
    "U+A628", "U+A8D8", "U+A908", "U+A9D8", "U+A9F8", "U+AA58", "U+ABF8",
    "U+FF18", "U+104A8", "U+10D38", "U+1106E", "U+110F8", "U+1113E",
    "U+111D8", "U+112F8", "U+11458", "U+114D8", "U+11658", "U+116C8",
    "U+11738", "U+118E8", "U+11958", "U+11C58", "U+11D58", "U+11DA8",
    "U+16A68", "U+16AC8", "U+16B58", "U+1D7D6", "U+1D7E0", "U+1D7EA",
    "U+1D7F4", "U+1D7FE", "U+1E148", "U+1E2F8", "U+1E958", "U+1FBF8"}

Nines == {
    "U+0669", "U+06F9", "U+07C9", "U+096F", "U+09EF", "U+0A6F", "U+0AEF",
    "U+0B6F", "U+0BEF", "U+0C6F", "U+0CEF", "U+0D6F", "U+0DEF", "U+0E59",
    "U+0ED9", "U+0F29", "U+1049", "U+1099", "U+17E9", "U+1819", "U+194F",
    "U+19D9", "U+1A89", "U+1A99", "U+1B59", "U+1BB9", "U+1C49", "U+1C59",
    "U+A629", "U+A8D9", "U+A909", "U+A9D9", "U+A9F9", "U+AA59", "U+ABF9",
    "U+FF19", "U+104A9", "U+10D39", "U+1106F", "U+110F9", "U+1113F",
    "U+111D9", "U+112F9", "U+11459", "U+114D9", "U+11659", "U+116C9",
    "U+11739", "U+118E9", "U+11959", "U+11C59", "U+11D59", "U+11DA9",
    "U+16A69", "U+16AC9", "U+16B59", "U+1D7D7", "U+1D7E1", "U+1D7EB",
    "U+1D7F5", "U+1D7FF", "U+1E149", "U+1E2F9", "U+1E959", "U+1FBF9"}

IsAsciiDigit(c) == \E i \in 1..10 : DigitChars[i] = c

UnicodeDigitVal(c) ==
    IF c \in Zeros THEN 0
    ELSE IF c \in Ones THEN 1
    ELSE IF c \in Twos THEN 2
    ELSE IF c \in Threes THEN 3
    ELSE IF c \in Fours THEN 4
    ELSE IF c \in Fives THEN 5
    ELSE IF c \in Sixes THEN 6
    ELSE IF c \in Sevens THEN 7
    ELSE IF c \in Eights THEN 8
    ELSE IF c \in Nines THEN 9
    ELSE -1

\* \d of a str pattern
IsDigit(c) == IsAsciiDigit(c) \/ UnicodeDigitVal(c) >= 0

DigitVal(c) == (CHOOSE i \in 1..10 : DigitChars[i] = c) - 1

\* str.isspace(): the white space str.strip() removes
SpaceChars == {
    "\t", "\n", "U+000B", "\f", "\r", "U+001C", "U+001D", "U+001E",
    "U+001F", " ", "U+0085", "U+00A0", "U+1680", "U+2000", "U+2001",
    "U+2002", "U+2003", "U+2004", "U+2005", "U+2006", "U+2007", "U+2008",
    "U+2009", "U+200A", "U+2028", "U+2029", "U+202F", "U+205F", "U+3000"}

\* the separators U+001C to U+001F are white space for str.strip() and
\* not for float()
InfoSeparators == {"U+001C", "U+001D", "U+001E", "U+001F"}

\* the white space of C, which float() strips
CSpaceChars == {" ", "\t", "\n", "U+000B", "\f", "\r"}

IsSpace(c) == c \in SpaceChars
IsCSpace(c) == c \in CSpaceChars

\* float() reads a text through its ASCII form: a space beyond ASCII becomes
\* " " and a decimal digit its digit of 0-9; any other character stays what
\* it is, a character that no float holds
ToAsciiChar(c) ==
    IF IsAsciiDigit(c) THEN c
    ELSE IF c \in SpaceChars /\ c \notin CSpaceChars /\ c \notin InfoSeparators THEN " "
    ELSE IF UnicodeDigitVal(c) >= 0 THEN DigitChars[UnicodeDigitVal(c) + 1]
    ELSE c

ToAscii(s) == [i \in 1..Len(s) |-> ToAsciiChar(s[i])]

\* the case folding of float() for the names inf, infinity and nan: A-Z only
AsciiLowerChar(c) ==
    IF \E i \in 1..26 : UpperChars[i] = c
    THEN LowerChars[CHOOSE i \in 1..26 : UpperChars[i] = c]
    ELSE c

AsciiLower(s) == [i \in 1..Len(s) |-> AsciiLowerChar(s[i])]

RECURSIVE LStrip(_)
LStrip(s) == IF s # <<>> /\ IsSpace(Head(s)) THEN LStrip(Tail(s)) ELSE s

RECURSIVE RStrip(_)
RStrip(s) ==
    IF s # <<>> /\ IsSpace(s[Len(s)]) THEN RStrip(SubSeq(s, 1, Len(s) - 1)) ELSE s

Strip(s) == RStrip(LStrip(s))

RECURSIVE CLStrip(_)
CLStrip(s) == IF s # <<>> /\ IsCSpace(Head(s)) THEN CLStrip(Tail(s)) ELSE s

RECURSIVE CRStrip(_)
CRStrip(s) ==
    IF s # <<>> /\ IsCSpace(s[Len(s)]) THEN CRStrip(SubSeq(s, 1, Len(s) - 1)) ELSE s

CStrip(s) == CRStrip(CLStrip(s))

EndsWithDotZero(s) == Len(s) >= 2 /\ s[Len(s) - 1] = "." /\ s[Len(s)] = "0"

\* re.sub(r'\D', '', s)
DigitsOf(s) == SelectSeq(s, IsDigit)

AsciiDigitsOf(s) == SelectSeq(s, IsAsciiDigit)

(***************************************************************************)
(* Naturals of any size: the decimal digits as numbers, the least          *)
(* significant first, and no digit for 0.                                  *)
(***************************************************************************)
Abs(n) == IF n < 0 THEN -n ELSE n
Max(a, b) == IF a > b THEN a ELSE b
Min(a, b) == IF a < b THEN a ELSE b

\* the digits are worked on by halves, from lo to hi
Mid(lo, hi) == (lo + hi) \div 2

\* the place of the most significant digit that is not 0, 0 without one
TopIndex(a) ==
    IF a = <<>> \/ a[Len(a)] # 0 THEN Len(a)
    ELSE IF \A i \in 1..Len(a) : a[i] = 0 THEN 0
    ELSE CHOOSE i \in 1..Len(a) :
            a[i] # 0 /\ \A j \in (i + 1)..Len(a) : a[j] = 0

\* without the zeros at the most significant end
BigNorm(a) == SubSeq(a, 1, TopIndex(a))

RECURSIVE BigOfNat(_)
BigOfNat(n) == IF n = 0 THEN <<>> ELSE <<n % 10>> \o BigOfNat(n \div 10)

RECURSIVE BigToNat(_)
BigToNat(a) == IF a = <<>> THEN 0 ELSE Head(a) + 10 * BigToNat(Tail(a))

BigDigit(a, i) == IF i <= Len(a) THEN a[i] ELSE 0

BigIsOdd(a) == a # <<>> /\ a[1] % 2 = 1

\* the most significant place where a and b of one length differ
TopDiff(a, b) ==
    CHOOSE i \in 1..Len(a) :
        a[i] # b[i] /\ \A j \in (i + 1)..Len(a) : a[j] = b[j]

\* -1, 0 or 1 as a < b, a = b or a > b
BigCmp(a, b) ==
    IF Len(a) < Len(b) THEN -1
    ELSE IF Len(a) > Len(b) THEN 1
    ELSE IF a = b THEN 0
    ELSE IF a[TopDiff(a, b)] < b[TopDiff(a, b)] THEN -1
    ELSE 1

BigLess(a, b) == BigCmp(a, b) < 0

\* a digit and the carry out of it
DigitOut(x) == [d |-> <<x % 10>>, c |-> x \div 10]
BorrowOut(x) == [d |-> <<(x + 10) % 10>>, c |-> IF x < 0 THEN 1 ELSE 0]

\* the digits of the low half, then those of the high half
Joined(l, h) == [d |-> l.d \o h.d, c |-> h.c]

WithCarry(r) == r.d \o BigOfNat(r.c)

\* the digits lo..hi of a + b with the carry c into them
RECURSIVE AddIn(_, _, _, _, _)
RECURSIVE AddHigh(_, _, _, _, _)
AddHigh(a, b, lo, hi, l) == Joined(l, AddIn(a, b, lo, hi, l.c))
AddIn(a, b, lo, hi, c) ==
    IF lo = hi THEN DigitOut(BigDigit(a, lo) + BigDigit(b, lo) + c)
    ELSE AddHigh(a, b, Mid(lo, hi) + 1, hi, AddIn(a, b, lo, Mid(lo, hi), c))

BigAdd(a, b) ==
    IF a = <<>> THEN b
    ELSE IF b = <<>> THEN a
    ELSE WithCarry(AddIn(a, b, 1, Max(Len(a), Len(b)), 0))

\* the digits lo..hi of a - b with the borrow c into them
RECURSIVE SubIn(_, _, _, _, _)
RECURSIVE SubHigh(_, _, _, _, _)
SubHigh(a, b, lo, hi, l) == Joined(l, SubIn(a, b, lo, hi, l.c))
SubIn(a, b, lo, hi, c) ==
    IF lo = hi THEN BorrowOut(a[lo] - BigDigit(b, lo) - c)
    ELSE SubHigh(a, b, Mid(lo, hi) + 1, hi, SubIn(a, b, lo, Mid(lo, hi), c))

\* a - b, for a >= b
BigSub(a, b) == IF b = <<>> THEN a ELSE BigNorm(SubIn(a, b, 1, Len(a), 0).d)

\* the digits lo..hi of a * k with the carry c into them
RECURSIVE MulIn(_, _, _, _, _)
RECURSIVE MulHigh(_, _, _, _, _)
MulHigh(a, k, lo, hi, l) == Joined(l, MulIn(a, k, lo, hi, l.c))
MulIn(a, k, lo, hi, c) ==
    IF lo = hi THEN DigitOut(a[lo] * k + c)
    ELSE MulHigh(a, k, Mid(lo, hi) + 1, hi, MulIn(a, k, lo, Mid(lo, hi), c))

\* a * k, for k below 2 * 10^8
BigMulSmall(a, k) ==
    IF k = 0 \/ a = <<>> THEN <<>>
    ELSE IF k = 1 THEN a
    ELSE WithCarry(MulIn(a, k, 1, Len(a), 0))

\* a digit of the quotient and the remainder left
QuotOut(x, k) == [q |-> <<x \div k>>, r |-> x % k]

\* the quotient digits of the high half, then those of the low half: the
\* digits of a quotient come out the most significant first
QuotJoined(h, l) == [q |-> h.q \o l.q, r |-> l.r]

\* the digits lo..hi of a by k with the remainder r from above them
RECURSIVE DivIn(_, _, _, _, _)
RECURSIVE DivLow(_, _, _, _, _)
DivLow(a, k, lo, hi, h) == QuotJoined(h, DivIn(a, k, lo, hi, h.r))
DivIn(a, k, lo, hi, r) ==
    IF lo = hi THEN QuotOut(r * 10 + a[lo], k)
    ELSE DivLow(a, k, lo, Mid(lo, hi), DivIn(a, k, Mid(lo, hi) + 1, hi, r))

Reversed(d) == [i \in 1..Len(d) |-> d[Len(d) - i + 1]]

NormQuot(h) == [q |-> BigNorm(Reversed(h.q)), r |-> h.r]

\* quotient and remainder of a by k, for k below 2 * 10^8
BigDivSmall(a, k) ==
    IF a = <<>> THEN [q |-> <<>>, r |-> 0]
    ELSE NormQuot(DivIn(a, k, 1, Len(a), 0))

\* a * 10^n
BigShift10(a, n) == IF a = <<>> THEN <<>> ELSE [i \in 1..n |-> 0] \o a

\* the number of the eight digits of b from the digit i on
Chunk(b, i) == BigToNat(SubSeq(b, i, Min(i + 7, Len(b))))

RECURSIVE MulAcc(_, _, _)
MulAcc(a, b, i) ==
    IF i > Len(b) THEN <<>>
    ELSE BigAdd(BigMulSmall(a, Chunk(b, i)), BigShift10(MulAcc(a, b, i + 8), 8))

BigMul(a, b) == IF a = <<>> \/ b = <<>> THEN <<>> ELSE MulAcc(a, b, 1)

\* a * 2^s, by factors up to 2^27
RECURSIVE BigShl(_, _)
BigShl(a, s) ==
    IF a = <<>> THEN <<>>
    ELSE IF s <= 27 THEN BigMulSmall(a, 2^s)
    ELSE BigShl(BigShl(a, s \div 2), s - s \div 2)

\* a * 5^n, by factors up to 5^11
RECURSIVE BigMulPow5(_, _)
BigMulPow5(a, n) ==
    IF a = <<>> THEN <<>>
    ELSE IF n <= 11 THEN BigMulSmall(a, 5^n)
    ELSE BigMulPow5(BigMulPow5(a, n \div 2), n - n \div 2)

ShrPack(d, st) == [q |-> d.q, st |-> st \/ d.r # 0]
ShrOnce(h, k) == ShrPack(BigDivSmall(h.q, k), h.st)

\* h.q \div 2^s, and in st whether anything but zeros was dropped
RECURSIVE BigShr(_, _)
BigShr(h, s) ==
    IF s = 0 \/ h.q = <<>> THEN h
    ELSE IF s <= 27 THEN ShrOnce(h, 2^s)
    ELSE BigShr(BigShr(h, s \div 2), s - s \div 2)

RECURSIVE BitLenFrom(_, _, _)
BitLenFrom(a, l, p) ==
    IF BigLess(a, p) THEN l ELSE BitLenFrom(a, l + 1, BigMulSmall(p, 2))

\* n * 3.3219 and n * 3.3220 without their decimals: a digit is
\* 3.32192... bits
BitsOfDigits(n, tenThousandths) ==
    (n \div 10000) * tenThousandths + ((n % 10000) * tenThousandths) \div 10000

\* 10^(n-1) has more bits than this
BitsBelow(n) == BitsOfDigits(n - 1, 33219)

\* the number of bits of a: the least l with a < 2^l
BitLen(a) ==
    IF a = <<>> THEN 0
    ELSE BitLenFrom(a, BitsBelow(Len(a)), BigShl(<<1>>, BitsBelow(Len(a))))

\* the greatest digit q with q * b <= r, among the digits up to q
RECURSIVE QuotDigit(_, _, _)
QuotDigit(r, b, q) ==
    IF q = 0 \/ ~BigLess(r, BigMulSmall(b, q)) THEN q ELSE QuotDigit(r, b, q - 1)

LongSub(rr, b, qd) == [q |-> <<qd>>, r |-> BigSub(rr, BigMulSmall(b, qd))]
LongDigit(rr, b) ==
    IF BigLess(rr, b) THEN [q |-> <<0>>, r |-> rr]
    ELSE LongSub(rr, b, QuotDigit(rr, b, 9))

\* the digits lo..hi of a by b with the remainder r from above them
RECURSIVE LongIn(_, _, _, _, _)
RECURSIVE LongLow(_, _, _, _, _)
LongLow(a, b, lo, hi, h) == QuotJoined(h, LongIn(a, b, lo, hi, h.r))
LongIn(a, b, lo, hi, r) ==
    IF lo = hi THEN LongDigit(BigNorm(<<a[lo]>> \o r), b)
    ELSE LongLow(a, b, lo, Mid(lo, hi), LongIn(a, b, Mid(lo, hi) + 1, hi, r))

BigOfRem(h) == [q |-> h.q, r |-> BigOfNat(h.r)]

\* quotient and remainder of a by b, b > 0
BigDivMod(a, b) ==
    IF Len(b) <= 8 THEN BigOfRem(BigDivSmall(a, BigToNat(b)))
    ELSE IF a = <<>> THEN [q |-> <<>>, r |-> <<>>]
    ELSE NormQuot(LongIn(a, b, 1, Len(a), <<>>))

(***************************************************************************)
(* Floats: the doubles.  A finite double is (-1)^neg * m * 2^e with m an   *)
(* odd natural below 2^53, or m = 0 and e = 0; the other kinds are inf,    *)
(* -inf and nan.  Every operation rounds to the nearest double, ties to    *)
(* the even one, as the hardware does.                                     *)
(***************************************************************************)
Inf == [k |-> "inf", neg |-> FALSE, m |-> <<>>, e |-> 0]
NegInf == [k |-> "ninf", neg |-> TRUE, m |-> <<>>, e |-> 0]
NaN == [k |-> "nan", neg |-> FALSE, m |-> <<>>, e |-> 0]
Zero == [k |-> "fin", neg |-> FALSE, m |-> <<>>, e |-> 0]
NegZero == [k |-> "fin", neg |-> TRUE, m |-> <<>>, e |-> 0]

HalvedBy(c, d, j) == IF d.r = 0 THEN [m |-> d.q, e |-> c.e + j] ELSE c

\* c with the factor 2^j of c.m moved into c.e, when c.m has it
Halved(c, j) == HalvedBy(c, BigDivSmall(c.m, 2^j), j)

\* with every factor 2^27 moved
RECURSIVE Halved27(_)
Halved27(c) == IF Halved(c, 27) = c THEN c ELSE Halved27(Halved(c, 27))

\* m * 2^e with the factors 2 of m moved into e
Canon(m, e) ==
    IF m = <<>> THEN [m |-> <<>>, e |-> 0]
    ELSE IF BigIsOdd(m) THEN [m |-> m, e |-> e]
    ELSE Halved(Halved(Halved(Halved(Halved(
             Halved27([m |-> m, e |-> e]), 16), 8), 4), 2), 1)

\* the exponent of the last bit a double keeps of m * 2^e, m of bl bits
RoundExp(e, bl) == Max(e + bl - 53, -1074)

RoundUp(q, bit, st) == IF bit /\ (st \/ BigIsOdd(q)) THEN BigAdd(q, <<1>>) ELSE q

\* h.q holds one bit more than the double keeps
RoundHalf(h) == RoundUp(BigDivSmall(h.q, 2).q, BigIsOdd(h.q), h.st)

\* beyond the largest double, (2^53 - 1) * 2^971
TooBig(m, e) == m # <<>> /\ (e > 971 \/ (e = 971 /\ BitLen(m) > 53))

Finite(c, over) == [over |-> over, m |-> c.m, e |-> c.e]
Kept(m, e) == Finite(Canon(m, e), TooBig(m, e))

RoundedAt(m, e, sticky, bl) ==
    IF RoundExp(e, bl) <= e THEN Finite(Canon(m, e), e + bl > 1024)
    ELSE Kept(RoundHalf(BigShr([q |-> m, st |-> sticky], RoundExp(e, bl) - e - 1)),
              RoundExp(e, bl))

\* the double nearest to (m + f) * 2^e, where 0 <= f < 1 and f > 0 iff
\* sticky; over when it is beyond the largest double.  With sticky, m has
\* more bits than a double keeps.
Rounded(m, e, sticky) == RoundedAt(m, e, sticky, BitLen(m))

FinOf(neg, r) == [k |-> "fin", neg |-> neg, m |-> r.m, e |-> r.e]

\* the float of a rounding: inf beyond the largest double
FloatOf(neg, r) ==
    IF r.over THEN (IF neg THEN NegInf ELSE Inf) ELSE FinOf(neg, r)

\* float(n) of an int n
FromInt(n) == FinOf(n < 0, Canon(BigOfNat(Abs(n)), 0))

FNeg(a) ==
    CASE a.k = "fin" -> [a EXCEPT !.neg = ~a.neg]
      [] a.k = "inf" -> NegInf
      [] a.k = "ninf" -> Inf
      [] OTHER -> NaN

FSign(a) ==
    CASE a.k = "inf" -> 1
      [] a.k = "ninf" -> -1
      [] a.k = "fin" -> (IF a.m = <<>> THEN 0 ELSE IF a.neg THEN -1 ELSE 1)
      [] OTHER -> 0

IsNeg(a) == a.k = "ninf" \/ (a.k = "fin" /\ a.neg)

\* a * b on floats
FMul(a, b) ==
    IF a.k = "nan" \/ b.k = "nan" THEN NaN
    ELSE IF a.k = "fin" /\ b.k = "fin"
    THEN FloatOf(a.neg # b.neg, Rounded(BigMul(a.m, b.m), a.e + b.e, FALSE))
    ELSE IF FSign(a) * FSign(b) = 0 THEN NaN
    ELSE IF IsNeg(a) # IsNeg(b) THEN NegInf
    ELSE Inf

\* bits to add to a so that the quotient by b has more bits than a double
DivShift(a, b) == Max(0, 56 + BitLen(b) - BitLen(a))

QuotRounded(d, e) == Rounded(d.q, e, d.r # <<>>)

\* a / b on finite floats, b not zero
FinDiv(a, b) ==
    FloatOf(a.neg # b.neg,
            QuotRounded(BigDivMod(BigShl(a.m, DivShift(a.m, b.m)), b.m),
                        a.e - b.e - DivShift(a.m, b.m)))

\* a / b on floats, b not zero
FDiv(a, b) ==
    IF a.k = "nan" \/ b.k = "nan" THEN NaN
    ELSE IF a.k = "fin" /\ b.k = "fin"
    THEN (IF a.m = <<>> THEN (IF a.neg # b.neg THEN NegZero ELSE Zero)
          ELSE FinDiv(a, b))
    ELSE IF a.k = "fin" THEN (IF a.neg # IsNeg(b) THEN NegZero ELSE Zero)
    ELSE IF b.k = "fin" THEN (IF IsNeg(a) # b.neg THEN NegInf ELSE Inf)
    ELSE NaN

\* the double nearest to n/d, for integers n and d > 0
Fin(n, d) == FDiv(FromInt(n), FromInt(d))

\* the finite float a in units of the lesser last bit of a and b
Aligned(a, b) == BigShl(a.m, a.e - Min(a.e, b.e))

\* the float8 of a rounded sum: a sum of finite values beyond the largest
\* double is the error "value out of range: overflow"
SumRounded(neg, r) ==
    IF r.over THEN [exc |-> "NumericValueOutOfRange", v |-> Zero]
    ELSE [exc |-> "none", v |-> FinOf(neg, r)]

SumOf(neg, m, e) == SumRounded(neg, Rounded(m, e, FALSE))

\* b is below a quarter of the last bit of a: a + b rounds to a
Outweighs(a, b) == b.e + BitLen(b.m) < a.e + BitLen(a.m) - 55

\* a + b on finite floats that are not zero
FinAdd(a, b) ==
    IF Outweighs(a, b) THEN [exc |-> "none", v |-> a]
    ELSE IF Outweighs(b, a) THEN [exc |-> "none", v |-> b]
    ELSE IF a.neg = b.neg
    THEN SumOf(a.neg, BigAdd(Aligned(a, b), Aligned(b, a)), Min(a.e, b.e))
    ELSE IF BigLess(Aligned(a, b), Aligned(b, a))
    THEN SumOf(b.neg, BigSub(Aligned(b, a), Aligned(a, b)), Min(a.e, b.e))
    ELSE IF Aligned(a, b) = Aligned(b, a) THEN [exc |-> "none", v |-> Zero]
    ELSE SumOf(a.neg, BigSub(Aligned(a, b), Aligned(b, a)), Min(a.e, b.e))

\* a + b where one of the floats is zero, infinite or nan: no error
EdgeSum(a, b) ==
    IF a.k = "nan" \/ b.k = "nan" THEN NaN
    ELSE IF a.k = "fin" /\ b.k = "fin"
    THEN (IF a.m = <<>> /\ b.m = <<>> THEN (IF a.neg /\ b.neg THEN NegZero ELSE Zero)
          ELSE IF a.m = <<>> THEN b
          ELSE a)
    ELSE IF a.k = "fin" THEN b
    ELSE IF b.k = "fin" THEN a
    ELSE IF a.k = b.k THEN a
    ELSE NaN

\* float8pl, the step of SUM over DOUBLE PRECISION: a + b as the hardware
\* adds, and an error when two finite floats add up to an infinity
FAdd(a, b) ==
    IF a.k = "fin" /\ b.k = "fin" /\ a.m # <<>> /\ b.m # <<>> THEN FinAdd(a, b)
    ELSE [exc |-> "none", v |-> EdgeSum(a, b)]

\* x > 0, x == 0, x >= 0 as the comparisons of floats decide them
FGtZero(a) == a.k = "inf" \/ (a.k = "fin" /\ a.m # <<>> /\ ~a.neg)
FEqZero(a) == a.k = "fin" /\ a.m = <<>>
FGeZero(a) == FGtZero(a) \/ FEqZero(a)

(***************************************************************************)
(* repr of a float: the shortest decimal that reads back as the float,     *)
(* and among those the nearest to it.                                      *)
(***************************************************************************)
\* the exponent of the last bit of the double m * 2^e
UlpExp(m, e) == RoundExp(e, BitLen(m))

\* a power of two above the least has its neighbour below at half the
\* distance of its neighbour above
NarrowBelow(m, e) == m = <<1>> /\ UlpExp(m, e) > -1074

\* the numbers that round to the double reach from lo to hi, in quarters of
\* the last bit
ReprMid(m, e) == BigShl(m, e - UlpExp(m, e) + 2)
ReprLow(m, e) == BigSub(ReprMid(m, e), IF NarrowBelow(m, e) THEN <<1>> ELSE <<2>>)
ReprHigh(m, e) == BigAdd(ReprMid(m, e), <<2>>)

\* a bound rounds to the double when the last bit of the double is 0
BoundsIn(m, e) == e > UlpExp(m, e)

\* a quarter of the last bit is 2^t = 5^-t / 10^-t: the number a in
\* quarters as a decimal with Max(-t, 0) decimals
InDecimal(a, t) == IF t >= 0 THEN BigShl(a, t) ELSE BigMulPow5(a, -t)

\* a without its n lowest digits
BigPrefix(a, n) == IF n >= Len(a) THEN <<>> ELSE SubSeq(a, n + 1, Len(a))

RestIsZero(a, n) == \A j \in 1..Min(n, Len(a)) : a[j] = 0

\* the least and the greatest multiple of 10^n in the range, as multiples
LeastIn(lo, n, incl) ==
    IF incl /\ RestIsZero(lo, n) THEN BigPrefix(lo, n)
    ELSE BigAdd(BigPrefix(lo, n), <<1>>)

GreatestIn(hi, n, incl) ==
    IF ~incl /\ RestIsZero(hi, n) THEN BigSub(BigPrefix(hi, n), <<1>>)
    ELSE BigPrefix(hi, n)

\* the most digits that can be dropped with a multiple left in the range
RECURSIVE DropMost(_, _, _, _)
DropMost(lo, hi, incl, n) ==
    IF n = 0 \/ ~BigLess(GreatestIn(hi, n, incl), LeastIn(lo, n, incl)) THEN n
    ELSE DropMost(lo, hi, incl, n - 1)

\* the n lowest digits of x against the half of 10^n: more than the half,
\* or the half itself with p odd
RoundsUp(x, n, p) ==
    /\ n >= 1
    /\ \/ BigDigit(x, n) > 5
       \/ /\ BigDigit(x, n) = 5
          /\ (~RestIsZero(x, n - 1) \/ BigIsOdd(p))

NearestMultiple(x, n) ==
    IF RoundsUp(x, n, BigPrefix(x, n)) THEN BigAdd(BigPrefix(x, n), <<1>>)
    ELSE BigPrefix(x, n)

Clamp(c, least, greatest) ==
    IF BigLess(c, least) THEN least
    ELSE IF BigLess(greatest, c) THEN greatest
    ELSE c

\* the multiple of 10^n in the range that is nearest to x
ShortestAt(x, lo, hi, incl, n) ==
    Clamp(NearestMultiple(x, n), LeastIn(lo, n, incl), GreatestIn(hi, n, incl))

\* the number of zeros at the least significant end of a
LowZeros(a) ==
    CHOOSE k \in 0..Len(a) :
        (k = Len(a) \/ a[k + 1] # 0) /\ \A j \in 1..k : a[j] = 0

\* the digits of c as text and the place of the point: c * 10^n / 10^p is
\* 0.d1d2d3... * 10^decpt
DigitsAndPoint(c, n, p) ==
    [digits |-> [i \in 1..(Len(c) - LowZeros(c)) |-> DigitChars[c[Len(c) - i + 1] + 1]],
     decpt |-> Len(c) + n - p]

ShortestIn(x, lo, hi, incl, n, p) == DigitsAndPoint(ShortestAt(x, lo, hi, incl, n), n, p)

ShortestOf(x, lo, hi, incl, p) ==
    ShortestIn(x, lo, hi, incl, DropMost(lo, hi, incl, Len(hi) - 1), p)

\* the shortest digits of the double m * 2^e, m > 0
ShortestDigits(m, e) ==
    ShortestOf(InDecimal(ReprMid(m, e), UlpExp(m, e) - 2),
               InDecimal(ReprLow(m, e), UlpExp(m, e) - 2),
               InDecimal(ReprHigh(m, e), UlpExp(m, e) - 2),
               BoundsIn(m, e),
               Max(2 - UlpExp(m, e), 0))

RECURSIVE NatToStr(_)
NatToStr(n) ==
    IF n < 10 THEN <<DigitChars[n + 1]>>
    ELSE NatToStr(n \div 10) \o <<DigitChars[(n % 10) + 1]>>

IntToStr(n) == IF n < 0 THEN <<"-">> \o NatToStr(-n) ELSE NatToStr(n)

ZeroChars(n) == [i \in 1..n |-> "0"]

\* the exponent of a repr has a sign and two digits at least
ExpDigits(x) ==
    (IF x < 0 THEN <<"-">> ELSE <<"+">>)
        \o (IF Abs(x) < 10 THEN <<"0">> ELSE <<>>) \o NatToStr(Abs(x))

\* d[.ddd]e+XX
ExpRepr(d, decpt) ==
    <<Head(d)>> \o (IF Len(d) > 1 THEN <<".">> \o Tail(d) ELSE <<>>)
        \o <<"e">> \o ExpDigits(decpt - 1)

\* the digits with the point in them, and ".0" after an integer
FixedRepr(d, decpt) ==
    IF decpt <= 0 THEN <<"0", ".">> \o ZeroChars(-decpt) \o d
    ELSE IF decpt >= Len(d) THEN d \o ZeroChars(decpt - Len(d)) \o <<".", "0">>
    ELSE SubSeq(d, 1, decpt) \o <<".">> \o SubSeq(d, decpt + 1, Len(d))

\* repr writes the values from 1e-4 up to 1e16 without an exponent
DigitsRepr(s) ==
    IF s.decpt > 16 \/ s.decpt < -3 THEN ExpRepr(s.digits, s.decpt)
    ELSE FixedRepr(s.digits, s.decpt)

\* repr of a float, which str() of a float is
FloatToStr(a) ==
    CASE a.k = "inf" -> <<"i", "n", "f">>
      [] a.k = "ninf" -> <<"-", "i", "n", "f">>
      [] a.k = "nan" -> <<"n", "a", "n">>
      [] OTHER ->
           (IF a.neg THEN <<"-">> ELSE <<>>)
               \o (IF a.m = <<>> THEN <<"0", ".", "0">>
                   ELSE DigitsRepr(ShortestDigits(a.m, a.e)))

(***************************************************************************)
(* Cells of a sheet row.  An int cell holds its decimal text, so that an   *)
(* int of any size has its str().                                          *)
(***************************************************************************)
NoneCell == [t |-> "none", s |-> <<>>, v |-> Zero]
TextCell(s) == [t |-> "text", s |-> s, v |-> Zero]
IntCell(n) == [t |-> "int", s |-> IntToStr(n), v |-> Zero]
\* an int cell by its decimal text: [-] digits, without leading zeros
BigIntCell(s) == [t |-> "int", s |-> s, v |-> Zero]
FloatCell(a) == [t |-> "float", s |-> <<>>, v |-> a]
BoolCell(b) == [t |-> "bool", s |-> <<>>, v |-> IF b THEN Fin(1, 1) ELSE Zero]
\* a datetime cell, s its str()
DateCell(s) == [t |-> "date", s |-> s, v |-> Zero]

\* str(cell)
Str(c) ==
    CASE c.t = "text" -> c.s
      [] c.t = "int" -> c.s
      [] c.t = "float" -> FloatToStr(c.v)
      [] c.t = "bool" -> (IF c.v = Zero THEN <<"F", "a", "l", "s", "e">>
                          ELSE <<"T", "r", "u", "e">>)
      [] c.t = "date" -> c.s
      [] OTHER -> <<"N", "o", "n", "e">>

\* bool(cell)
Truthy(c) ==
    CASE c.t = "text" -> c.s # <<>>
      [] c.t = "int" -> c.s # <<"0">>
      [] c.t = "float" -> ~FEqZero(c.v)
      [] c.t = "bool" -> c.v # Zero
      [] c.t = "date" -> TRUE
      [] OTHER -> FALSE

(***************************************************************************)
(* float(text): the text is read through its ASCII form, surrounding white *)
(* space is ignored, underscores may stand between digits, then [sign]     *)
(* (inf | infinity | nan) or a decimal with an optional exponent.          *)
(* Anything else is a ValueError.                                          *)
(***************************************************************************)
UnderscoresOk(t) ==
    \A i \in 1..Len(t) :
        t[i] = "_" => /\ i > 1
                      /\ i < Len(t)
                      /\ IsAsciiDigit(t[i - 1])
                      /\ IsAsciiDigit(t[i + 1])

NotUnderscore(c) == c # "_"
IsDot(c) == c = "."
IsExpChar(c) == c \in {"e", "E"}

\* the digits of a text, without the leading zeros
LeadingZeros(d) ==
    CHOOSE k \in 0..Len(d) :
        (k = Len(d) \/ d[k + 1] # "0") /\ \A j \in 1..k : d[j] = "0"

DropZeros(d) == SubSeq(d, LeadingZeros(d) + 1, Len(d))

SigDigits(m) == DropZeros(AsciiDigitsOf(m))

\* [sign] digits+
ExponentOk(x) ==
    LET d == IF x # <<>> /\ Head(x) \in {"+", "-"} THEN Tail(x) ELSE x
    IN  d # <<>> /\ \A i \in 1..Len(d) : IsAsciiDigit(d[i])

RECURSIVE StrToNat(_)
StrToNat(s) ==
    IF s = <<>> THEN 0
    ELSE 10 * StrToNat(SubSeq(s, 1, Len(s) - 1)) + DigitVal(s[Len(s)])

\* float() reads an exponent of more than nine digits as 1100000000, which
\* is beyond the digits of every text it takes
ExponentAbs(d) ==
    IF Len(SigDigits(d)) > 9 THEN 1100000000 ELSE StrToNat(SigDigits(d))

ExponentVal(x) ==
    IF Head(x) = "-" THEN -ExponentAbs(Tail(x))
    ELSE IF Head(x) = "+" THEN ExponentAbs(Tail(x))
    ELSE ExponentAbs(x)

\* digits with at most one point and at least one digit
MantissaOk(m) ==
    /\ \A i \in 1..Len(m) : IsAsciiDigit(m[i]) \/ m[i] = "."
    /\ Len(SelectSeq(m, IsDot)) <= 1
    /\ AsciiDigitsOf(m) # <<>>

FracLen(m) ==
    IF \E i \in 1..Len(m) : m[i] = "."
    THEN Len(m) - (CHOOSE i \in 1..Len(m) : m[i] = ".")
    ELSE 0

SpecialNames == {<<"i", "n", "f">>,
                 <<"i", "n", "f", "i", "n", "i", "t", "y">>,
                 <<"n", "a", "n">>}

BadFloat == [exc |-> "ValueError", v |-> Zero]

\* position of the exponent mark, Len + 1 without one
ExpPos(body) ==
    IF \E i \in 1..Len(body) : IsExpChar(body[i])
    THEN CHOOSE i \in 1..Len(body) :
            /\ IsExpChar(body[i])
            /\ \A j \in 1..(i - 1) : ~IsExpChar(body[j])
    ELSE Len(body) + 1

\* the 309 digits of 2^1024 - 2^970, the least value that rounds beyond the
\* largest double
RoundsToInf == <<
    "1", "7", "9", "7", "6", "9", "3", "1", "3", "4", "8", "6", "2", "3",
    "1", "5", "8", "0", "7", "9", "3", "7", "2", "8", "9", "7", "1", "4",
    "0", "5", "3", "0", "3", "4", "1", "5", "0", "7", "9", "9", "3", "4",
    "1", "3", "2", "7", "1", "0", "0", "3", "7", "8", "2", "6", "9", "3",
    "6", "1", "7", "3", "7", "7", "8", "9", "8", "0", "4", "4", "4", "9",
    "6", "8", "2", "9", "2", "7", "6", "4", "7", "5", "0", "9", "4", "6",
    "6", "4", "9", "0", "1", "7", "9", "7", "7", "5", "8", "7", "2", "0",
    "7", "0", "9", "6", "3", "3", "0", "2", "8", "6", "4", "1", "6", "6",
    "9", "2", "8", "8", "7", "9", "1", "0", "9", "4", "6", "5", "5", "5",
    "5", "4", "7", "8", "5", "1", "9", "4", "0", "4", "0", "2", "6", "3",
    "0", "6", "5", "7", "4", "8", "8", "6", "7", "1", "5", "0", "5", "8",
    "2", "0", "6", "8", "1", "9", "0", "8", "9", "0", "2", "0", "0", "0",
    "7", "0", "8", "3", "8", "3", "6", "7", "6", "2", "7", "3", "8", "5",
    "4", "8", "4", "5", "8", "1", "7", "7", "1", "1", "5", "3", "1", "7",
    "6", "4", "4", "7", "5", "7", "3", "0", "2", "7", "0", "0", "6", "9",
    "8", "5", "5", "5", "7", "1", "3", "6", "6", "9", "5", "9", "6", "2",
    "2", "8", "4", "2", "9", "1", "4", "8", "1", "9", "8", "6", "0", "8",
    "3", "4", "9", "3", "6", "4", "7", "5", "2", "9", "2", "7", "1", "9",
    "0", "7", "4", "1", "6", "8", "4", "4", "4", "3", "6", "5", "5", "1",
    "0", "7", "0", "4", "3", "4", "2", "7", "1", "1", "5", "5", "9", "6",
    "9", "9", "5", "0", "8", "0", "9", "3", "0", "4", "2", "8", "8", "0",
    "1", "7", "7", "9", "0", "4", "1", "7", "4", "4", "9", "7", "7", "9",
    "2">>

\* the significant digits of 2^-1075, the greatest value that rounds to zero:
\* 2^-1075 is 0.247...e-323
RoundsToZero == <<
    "2", "4", "7", "0", "3", "2", "8", "2", "2", "9", "2", "0", "6", "2",
    "3", "2", "7", "2", "0", "8", "8", "2", "8", "4", "3", "9", "6", "4",
    "3", "4", "1", "1", "0", "6", "8", "6", "1", "8", "2", "5", "2", "9",
    "9", "0", "1", "3", "0", "7", "1", "6", "2", "3", "8", "2", "2", "1",
    "2", "7", "9", "2", "8", "4", "1", "2", "5", "0", "3", "3", "7", "7",
    "5", "3", "6", "3", "5", "1", "0", "4", "3", "7", "5", "9", "3", "2",
    "6", "4", "9", "9", "1", "8", "1", "8", "0", "8", "1", "7", "9", "9",
    "6", "1", "8", "9", "8", "9", "8", "2", "8", "2", "3", "4", "7", "7",
    "2", "2", "8", "5", "8", "8", "6", "5", "4", "6", "3", "3", "2", "8",
    "3", "5", "5", "1", "7", "7", "9", "6", "9", "8", "9", "8", "1", "9",
    "9", "3", "8", "7", "3", "9", "8", "0", "0", "5", "3", "9", "0", "9",
    "3", "9", "0", "6", "3", "1", "5", "0", "3", "5", "6", "5", "9", "5",
    "1", "5", "5", "7", "0", "2", "2", "6", "3", "9", "2", "2", "9", "0",
    "8", "5", "8", "3", "9", "2", "4", "4", "9", "1", "0", "5", "1", "8",
    "4", "4", "3", "5", "9", "3", "1", "8", "0", "2", "8", "4", "9", "9",
    "3", "6", "5", "3", "6", "1", "5", "2", "5", "0", "0", "3", "1", "9",
    "3", "7", "0", "4", "5", "7", "6", "7", "8", "2", "4", "9", "2", "1",
    "9", "3", "6", "5", "6", "2", "3", "6", "6", "9", "8", "6", "3", "6",
    "5", "8", "4", "8", "0", "7", "5", "7", "0", "0", "1", "5", "8", "5",
    "7", "6", "9", "2", "6", "9", "9", "0", "3", "7", "0", "6", "3", "1",
    "1", "9", "2", "8", "2", "7", "9", "5", "5", "8", "5", "5", "1", "3",
    "3", "2", "9", "2", "7", "8", "3", "4", "3", "3", "8", "4", "0", "9",
    "3", "5", "1", "9", "7", "8", "0", "1", "5", "5", "3", "1", "2", "4",
    "6", "5", "9", "7", "2", "6", "3", "5", "7", "9", "5", "7", "4", "6",
    "2", "2", "7", "6", "6", "4", "6", "5", "2", "7", "2", "8", "2", "7",
    "2", "2", "0", "0", "5", "6", "3", "7", "4", "0", "0", "6", "4", "8",
    "5", "4", "9", "9", "9", "7", "7", "0", "9", "6", "5", "9", "9", "4",
    "7", "0", "4", "5", "4", "0", "2", "0", "8", "2", "8", "1", "6", "6",
    "2", "2", "6", "2", "3", "7", "8", "5", "7", "3", "9", "3", "4", "5",
    "0", "7", "3", "6", "3", "3", "9", "0", "0", "7", "9", "6", "7", "7",
    "6", "1", "9", "3", "0", "5", "7", "7", "5", "0", "6", "7", "4", "0",
    "1", "7", "6", "3", "2", "4", "6", "7", "3", "6", "0", "0", "9", "6",
    "8", "9", "5", "1", "3", "4", "0", "5", "3", "5", "5", "3", "7", "4",
    "5", "8", "5", "1", "6", "6", "6", "1", "1", "3", "4", "2", "2", "3",
    "7", "6", "6", "6", "7", "8", "6", "0", "4", "1", "6", "2", "1", "5",
    "9", "6", "8", "0", "4", "6", "1", "9", "1", "4", "4", "6", "7", "2",
    "9", "1", "8", "4", "0", "3", "0", "0", "5", "3", "0", "0", "5", "7",
    "5", "3", "0", "8", "4", "9", "0", "4", "8", "7", "6", "5", "3", "9",
    "1", "7", "1", "1", "3", "8", "6", "5", "9", "1", "6", "4", "6", "2",
    "3", "9", "5", "2", "4", "9", "1", "2", "6", "2", "3", "6", "5", "3",
    "8", "8", "1", "8", "7", "9", "6", "3", "6", "2", "3", "9", "3", "7",
    "3", "2", "8", "0", "4", "2", "3", "8", "9", "1", "0", "1", "8", "6",
    "7", "2", "3", "4", "8", "4", "9", "7", "6", "6", "8", "2", "3", "5",
    "0", "8", "9", "8", "6", "3", "3", "8", "8", "5", "8", "7", "9", "2",
    "5", "6", "2", "8", "3", "0", "2", "7", "5", "5", "9", "9", "5", "6",
    "5", "7", "5", "2", "4", "4", "5", "5", "5", "0", "7", "2", "5", "5",
    "1", "8", "9", "3", "1", "3", "6", "9", "0", "8", "3", "6", "2", "5",
    "4", "7", "7", "9", "1", "8", "6", "9", "4", "8", "6", "6", "7", "9",
    "9", "4", "9", "6", "8", "3", "2", "4", "0", "4", "9", "7", "0", "5",
    "8", "2", "1", "0", "2", "8", "5", "1", "3", "1", "8", "5", "4", "5",
    "1", "3", "9", "6", "2", "1", "3", "8", "3", "7", "7", "2", "2", "8",
    "2", "6", "1", "4", "5", "4", "3", "7", "6", "9", "3", "4", "1", "2",
    "5", "3", "2", "0", "9", "8", "5", "9", "1", "3", "2", "7", "6", "6",
    "7", "2", "3", "6", "3", "2", "8", "1", "2", "5">>

DigitAt(d, i) == IF i <= Len(d) THEN DigitVal(d[i]) ELSE 0

\* a > b for digit sequences read as decimals 0.d1d2d3...
DigitsGreater(a, b) ==
    \E i \in 1..(Len(a) + Len(b)) :
        /\ DigitAt(a, i) > DigitAt(b, i)
        /\ \A j \in 1..(i - 1) : DigitAt(a, j) = DigitAt(b, j)

\* mant * 10^e, when not zero, is 0.d1d2d3... * 10^Magnitude
Magnitude(mant, e) == Len(SigDigits(mant)) + e - FracLen(mant)

\* mant * 10^e rounds to inf
Overflows(mant, e) ==
    /\ SigDigits(mant) # <<>>
    /\ \/ Magnitude(mant, e) > 309
       \/ /\ Magnitude(mant, e) = 309
          /\ ~DigitsGreater(RoundsToInf, SigDigits(mant))

\* mant * 10^e rounds to zero
Underflows(mant, e) ==
    \/ SigDigits(mant) = <<>>
    \/ Magnitude(mant, e) < -323
    \/ /\ Magnitude(mant, e) = -323
       /\ ~DigitsGreater(SigDigits(mant), RoundsToZero)

\* the digits of a text as a natural
BigOfText(d) == [i \in 1..Len(d) |-> DigitVal(d[Len(d) - i + 1])]

\* bits to add to a natural of nd digits so that its quotient by 10^k has
\* more bits than a double keeps
DecShift(nd, k) == Max(0, 60 + BitsOfDigits(k, 33220) - BitsBelow(nd))

DecimalCut(w, k, s) == Rounded(BigPrefix(w, k), -s, ~RestIsZero(w, k))

\* the double nearest to d / 10^k
DecimalDown(d, k) ==
    DecimalCut(BigShl(d, DecShift(Len(d), k)), k, DecShift(Len(d), k))

\* the double nearest to d * 10^x
DecimalScaled(d, x) ==
    IF x >= 0 THEN Rounded(BigShift10(d, x), 0, FALSE) ELSE DecimalDown(d, -x)

\* d * 10^x with the zeros at the end of d moved into x
DecimalTrimmed(d, x, zeros) == DecimalScaled(BigPrefix(d, zeros), x + zeros)

DecimalRounded(d, x) == DecimalTrimmed(d, x, LowZeros(d))

\* the value of mantissa * 10^e
DecimalVal(mant, e) ==
    IF Underflows(mant, e) THEN Zero
    ELSE IF Overflows(mant, e) THEN Inf
    ELSE FloatOf(FALSE, DecimalRounded(BigOfText(SigDigits(mant)), e - FracLen(mant)))

ParseDecimal(mant, expo, hasExp) ==
    IF ~MantissaOk(mant) \/ (hasExp /\ ~ExponentOk(expo)) THEN BadFloat
    ELSE [exc |-> "none",
          v |-> DecimalVal(mant, IF hasExp THEN ExponentVal(expo) ELSE 0)]

\* the text after the sign
ParseUnsigned(body) ==
    IF AsciiLower(body) = <<"n", "a", "n">> THEN [exc |-> "none", v |-> NaN]
    ELSE IF AsciiLower(body) \in SpecialNames THEN [exc |-> "none", v |-> Inf]
    ELSE ParseDecimal(SubSeq(body, 1, ExpPos(body) - 1),
                      SubSeq(body, ExpPos(body) + 1, Len(body)),
                      ExpPos(body) <= Len(body))

\* the float of a text after its minus sign
Negated(r) == IF r.exc = "none" THEN [exc |-> "none", v |-> FNeg(r.v)] ELSE r

HasSign(u) == u # <<>> /\ Head(u) \in {"+", "-"}
HasMinus(u) == u # <<>> /\ Head(u) = "-"

Signed(minus, r) == IF minus THEN Negated(r) ELSE r

ParseSigned(u) ==
    Signed(HasMinus(u), ParseUnsigned(IF HasSign(u) THEN Tail(u) ELSE u))

\* float(s) of an ASCII text
ParseAscii(s) ==
    IF ~UnderscoresOk(s) THEN BadFloat ELSE ParseSigned(SelectSeq(s, NotUnderscore))

ParseFloat(s) == ParseAscii(CStrip(ToAscii(s)))

\* float(n) of an int by its decimal text: an int beyond the largest double
\* is an OverflowError
NatToFloat(d) ==
    IF Overflows(d, 0) THEN [exc |-> "OverflowError", v |-> Zero]
    ELSE [exc |-> "none", v |-> DecimalVal(d, 0)]

IntToFloat(s) == Signed(HasMinus(s), NatToFloat(IF HasMinus(s) THEN Tail(s) ELSE s))

\* float(cell)
ToFloat(c) ==
    CASE c.t = "text" -> ParseFloat(c.s)
      [] c.t = "int" -> IntToFloat(c.s)
      [] c.t \in {"float", "bool"} -> [exc |-> "none", v |-> c.v]
      [] OTHER -> [exc |-> "TypeError", v |-> Zero]

\* the integer part of the finite float a without its sign
Truncated(a) ==
    IF a.e >= 0 THEN BigToNat(BigShl(a.m, a.e))
    ELSE BigToNat(BigShr([q |-> a.m, st |-> FALSE], -a.e).q)

\* int(x) of a float x: truncation toward zero
ToInt(a) ==
    CASE a.k \in {"inf", "ninf"} -> [exc |-> "OverflowError", n |-> 0]
      [] a.k = "nan" -> [exc |-> "ValueError", n |-> 0]
      [] OTHER -> [exc |-> "none",
                   n |-> IF a.neg THEN -Truncated(a) ELSE Truncated(a)]
(***************************************************************************)
(* parse_manifest_xlsx: the body of the data-row loop.                     *)
(***************************************************************************)
\* get_val(key, default): an absent column and a null cell give the default
GetVal(r, key, default) == IF r[key].t = "none" THEN default ELSE r[key]

\* the aggregate main hands to the parser: the entry of orders_map, or the
\* zeroed default for an order that is not in it
OrderMeta(om, oid) ==
    IF oid \in DOMAIN om THEN om[oid]
    ELSE [date |-> <<>>, total_cost |-> 0, total_msrp |-> 0,
          pallet_brands |-> <<>>]

\* cost / MSRP, 0 when the MSRP is not positive
CogsRatio(meta) ==
    IF meta.total_msrp > 0
    THEN FDiv(FromInt(meta.total_cost), FromInt(meta.total_msrp))
    ELSE Zero

\* pallet_brands.get(listing_id, ""); pallet_brands is a function of pallet ids
PalletBrand(meta, lid) ==
    IF lid \in DOMAIN meta.pallet_brands THEN meta.pallet_brands[lid] ELSE <<>>

\* the cleaning without the removal of the non-digit characters
\* str(upc_raw).strip() if upc_raw else ""
UpcText(upc_raw) == IF Truthy(upc_raw) THEN Strip(Str(upc_raw)) ELSE <<>>

\* upc[:-2] if upc.endswith(".0")
DropDotZero(upc) ==
    IF EndsWithDotZero(upc) THEN SubSeq(upc, 1, Len(upc) - 2) ELSE upc

\* the digits of the text when it has 12 or 13 of them, or any at all
ValidUpc(upc, upc_clean) ==
    IF Len(upc_clean) \in {12, 13} THEN upc_clean
    ELSE IF upc_clean # <<>> THEN upc_clean
    ELSE upc

DigitsOrText(upc) == ValidUpc(upc, DigitsOf(upc))

CleanUpc_KeepOriginal(upc_raw) == DropDotZero(UpcText(upc_raw))

CleanUpc(upc_raw) == DigitsOrText(DropDotZero(UpcText(upc_raw)))

\* the exceptions the three handlers of lines 228, 233 and 238 catch
Caught == {"ValueError", "TypeError"}

\* int(float(cell)), 1 on ValueError or TypeError; OverflowError is not caught
IntOrOne(q) == IF q.exc \in Caught THEN [exc |-> "none", n |-> 1] ELSE q

QuantityOf(f) ==
    IF f.exc \in Caught THEN [exc |-> "none", n |-> 1]
    ELSE IF f.exc # "none" THEN [exc |-> f.exc, n |-> 0]
    ELSE IntOrOne(ToInt(f.v))

Quantity(c) == QuantityOf(ToFloat(c))

\* float(cell), 0.0 on ValueError or TypeError; OverflowError is not caught
FloatOrZero(f) == IF f.exc \in Caught THEN [exc |-> "none", v |-> Zero] ELSE f

UnitRetail(c) == FloatOrZero(ToFloat(c))

\* the total without the override of a zero total
FloatOr(f, product) == IF f.exc \in Caught THEN [exc |-> "none", v |-> product] ELSE f

TotalRetail_NoZeroOverride(c, unit_retail, quantity) ==
    FloatOr(ToFloat(c), FMul(unit_retail, FromInt(quantity)))

\* float(cell), unit_retail * quantity on ValueError or TypeError, or on 0
\* with unit_retail > 0; OverflowError is not caught
\* the override of lines 241-242
ZeroOverride(total, unit_retail, product) ==
    IF FEqZero(total.v) /\ FGtZero(unit_retail) THEN [exc |-> "none", v |-> product]
    ELSE total

TotalOf(f, unit_retail, product) ==
    IF f.exc # "none" /\ f.exc \notin Caught THEN f
    ELSE ZeroOverride(FloatOr(f, product), unit_retail, product)

TotalRetail(c, unit_retail, quantity) ==
    TotalOf(ToFloat(c), unit_retail, FMul(unit_retail, FromInt(quantity)))

HeaderName == <<"p", "r", "o", "d", "u", "c", "t", " ", "n", "a", "m", "e">>

\* s.lower() == "product name": str.lower() takes no character but a letter
\* of A-Z to a letter of the name, and none to its space
IsHeaderName(s) ==
    /\ Len(s) = Len(HeaderName)
    /\ \A i \in 1..Len(s) : s[i] = HeaderName[i] \/ AsciiLowerChar(s[i]) = HeaderName[i]

EmptyText == TextCell(<<>>)
NoRec == [order_id |-> "", listing_id |-> <<>>, listing_title |-> <<>>,
          category |-> <<>>, product_name |-> <<>>, upc |-> <<>>, asin |-> <<>>,
          quantity |-> 0, unit_retail |-> Zero, total_retail |-> Zero,
          order_date |-> <<>>, line_item_brands |-> <<>>,
          allocated_cogs_per_unit |-> Zero]

Skipped == [st |-> "skipped", exc |-> "none", rec |-> NoRec]
Raised(e) == [st |-> "raised", exc |-> e, rec |-> NoRec]

\* rows.append of lines 250-264
EmitRow(r, oid, meta, listing_id, product_name, q, u, t) ==
    [st |-> "emitted", exc |-> "none",
     rec |-> [order_id |-> oid,
              listing_id |-> listing_id,
              listing_title |-> Strip(Str(GetVal(r, "listing_title", EmptyText))),
              category |-> Strip(Str(GetVal(r, "category", EmptyText))),
              product_name |-> product_name,
              upc |-> CleanUpc(GetVal(r, "upc", EmptyText)),
              asin |-> IF Truthy(r.asin)
                       THEN Strip(Str(GetVal(r, "asin", EmptyText)))
                       ELSE <<>>,
              quantity |-> q,
              unit_retail |-> u,
              total_retail |-> t,
              order_date |-> meta.date,
              line_item_brands |-> PalletBrand(meta, listing_id),
              allocated_cogs_per_unit |-> FMul(u, CogsRatio(meta))]]

\* the coercions of lines 226-242 in their order: the first exception that
\* is not caught leaves the parser
EmitTotal(r, oid, meta, listing_id, product_name, q, u, t) ==
    IF t.exc # "none" THEN Raised(t.exc)
    ELSE EmitRow(r, oid, meta, listing_id, product_name, q, u, t.v)

CoerceRow(r, oid, meta, listing_id, product_name, q, u) ==
    IF q.exc # "none" THEN Raised(q.exc)
    ELSE IF u.exc # "none" THEN Raised(u.exc)
    ELSE EmitTotal(r, oid, meta, listing_id, product_name, q.n, u.v,
                   TotalRetail(GetVal(r, "total_retail", IntCell(0)), u.v, q.n))

\* one data row: skipped, raised (the exception leaves the parser) or emitted
NamedRow(r, oid, meta, listing_id, product_name) ==
    IF product_name = <<>> \/ IsHeaderName(product_name) THEN Skipped
    ELSE CoerceRow(r, oid, meta, listing_id, product_name,
                   Quantity(GetVal(r, "quantity", IntCell(1))),
                   UnitRetail(GetVal(r, "unit_retail", IntCell(0))))

NormalizeRow(r, oid, meta) ==
    NamedRow(r, oid, meta,
             Strip(Str(GetVal(r, "listing_id", EmptyText))),
             Strip(Str(GetVal(r, "product_name", EmptyText))))
(***************************************************************************)
(* Inputs of the row specifications.                                       *)
(***************************************************************************)
Texts(chars, n) == UNION {[1..k -> chars] : k \in 0..n}

\* digits, the point of ".0", white space, a letter and a digit outside ASCII
UpcChars == {"1", "0", ".", " ", "a", "U+0663"}

\* a 12-digit code, and text with white space and digits beyond ASCII
UpcTexts ==
    {<<"0", "1", "2", "3", "4", "5", "6", "7", "8", "9", "0", "5">>,
     <<"\f">>, <<"a", "\f">>, <<"U+00A0", "1", "U+000B">>, <<"a", "U+001C", ".", "0">>,
     <<"U+2003", "a", "U+3000">>, <<"U+06F3", "-", "U+FF11">>}

UpcCells ==
    {TextCell(s) : s \in Texts(UpcChars, MaxUpcLen) \cup UpcTexts}
    \cup {NoneCell, BoolCell(TRUE), BoolCell(FALSE)}
    \cup {IntCell(n) : n \in 0..MaxNum}
    \cup {BigIntCell(<<"1", "2", "3", "4", "5", "6", "7", "8", "9", "0", "1", "2">>)}
    \cup {FloatCell(Fin(n, 2)) : n \in 0..MaxNum}
    \cup {FloatCell(Fin(1, 1000)), FloatCell(Fin(2675, 1000)),
          FloatCell(Fin(123456789, 1000)), FloatCell(Fin(1, 100000)),
          FloatCell(Fin(-3, 200000)), FloatCell(NaN), FloatCell(Inf)}
    \* 2^-20, the double nearest 1/3, 1 + 2^-18 and the negative zero
    \cup {FloatCell(Fin(1, 1048576)), FloatCell(Fin(1, 3)),
          FloatCell(Fin(262145, 262144)), FloatCell(NegZero)}

NumTexts == {<<"i", "n", "f">>, <<"-", "I", "n", "f">>, <<"n", "a", "n">>,
             <<"a", "b", "c">>, <<>>, <<" ", "2", " ">>,
             <<"2", ".", "7">>, <<"-", "2", ".", "7">>, <<"1", "e", "1">>,
             <<"7", "\f">>, <<"U+000B", "7">>, <<"U+00A0", "7">>, <<"U+001C", "7">>,
             <<"U+2003", "U+0663", "_", "U+06F3", "U+0085">>,
             <<"1", "e", "4", "0", "0">>, <<"1", "e", "-", "4", "0", "0">>,
             <<"3">>}

\* the int 10^400, beyond the range of a double
HugeInt == BigIntCell(<<"1">> \o [i \in 1..400 |-> "0"])

NumCells ==
    {IntCell(n) : n \in -MaxNum..MaxNum}
    \cup {FloatCell(Fin(n, 2)) : n \in -MaxNum..MaxNum}
    \cup {TextCell(s) : s \in NumTexts}
    \cup {NoneCell, DateCell(<<"2", "0", "2", "4">>), BoolCell(TRUE), HugeInt}

RetailCells ==
    {IntCell(n) : n \in -1..MaxNum}
    \cup {FloatCell(Fin(1, 2)), FloatCell(Fin(1, 10)), FloatCell(Inf), FloatCell(NaN),
          NoneCell, HugeInt}
    \cup {TextCell(s) : s \in {<<"i", "n", "f">>, <<"a", "b", "c">>, <<"2", ".", "7">>,
                                <<"U+00A0", "7">>, <<"1", "e", "-", "4", "0", "0">>}}

NameCells == {TextCell(<<"t", "v">>), TextCell(<<" ", "T", "V", " ">>),
              TextCell(<<>>), NoneCell, TextCell(<<"\f", "U+001C">>),
              TextCell(<<"P", "r", "o", "d", "u", "c", "t", " ", "N", "a", "m", "e">>),
              TextCell(<<"P", "R", "O", "D", "U", "C", "T", " ", "N", "A", "M", "U+00C9">>)}

ListingL1 == <<"L", "1">>
\* the pallet id with or without white space around it
ListingCells == {TextCell(ListingL1), TextCell(ListingL1 \o <<"\f">>)}
Brands == <<"A", "c", "m", "e">>
Date1 == <<"2", "0", "2", "4">>

\* orders.json knows order A only
OrdersMaps ==
    {[o \in {"A"} |-> [date |-> Date1, total_cost |-> c, total_msrp |-> m,
                       pallet_brands |-> [l \in {ListingL1} |-> Brands]]] :
        c \in 0..MaxCost, m \in -1..MaxMsrp}

BaseRow == [listing_id |-> TextCell(ListingL1),
            listing_title |-> TextCell(<<"l", "o", "t">>),
            category |-> TextCell(<<"c", "a", "t">>),
            product_name |-> TextCell(<<"t", "v">>),
            upc |-> IntCell(1),
            asin |-> NoneCell,
            quantity |-> IntCell(1),
            unit_retail |-> IntCell(1),
            total_retail |-> IntCell(1)]

NotCleaned == [done |-> FALSE, upc |-> <<>>]

SyncIdle ==
    /\ manifests = <<>>
    /\ all_rows = <<>>
    /\ store = <<>>
    /\ work = <<>>
    /\ idx = 0
    /\ pc = "idle"
    /\ inserted = 0
    /\ errors = 0
    /\ attempts = <<>>
    /\ succeeded = {}
    /\ run = 0
    /\ summaries = <<>>
    /\ prev_store = <<>>
    /\ failures = 0

RowStart ==
    /\ norm_pc = "row"
    /\ rec = NoRec
    /\ exc = "none"
    /\ recleaned = NotCleaned

\* every content of the UPC cell, in a row that is otherwise well formed
InitUpc ==
    /\ orders_map \in {om \in OrdersMaps : om["A"].total_cost = 1 /\ om["A"].total_msrp = 2}
    /\ order_id \in {"A", "B"}
    /\ \E u \in UpcCells, p \in NameCells, l \in ListingCells :
          row = [BaseRow EXCEPT !.upc = u, !.product_name = p, !.listing_id = l]
    /\ RowStart
    /\ SyncIdle

\* every content of the quantity and retail cells, under every aggregate of
\* order A and for order B, which orders.json does not know
InitRow ==
    /\ orders_map \in OrdersMaps
    /\ order_id \in {"A", "B"}
    /\ order_id = "B" => orders_map["A"].total_cost = 1 /\ orders_map["A"].total_msrp = 2
    /\ \E q \in NumCells, u \in RetailCells, t \in RetailCells :
          row = [BaseRow EXCEPT !.quantity = q, !.unit_retail = u, !.total_retail = t]
    /\ RowStart
    /\ SyncIdle

(***************************************************************************)
(* Row actions.                                                            *)
(***************************************************************************)
RowResult(res) ==
    /\ norm_pc' = res.st
    /\ rec' = res.rec
    /\ exc' = res.exc

\* the parser handles the row
ParseRow ==
    /\ norm_pc = "row"
    /\ RowResult(NormalizeRow(row, order_id, OrderMeta(orders_map, order_id)))
    /\ UNCHANGED <<orders_map, order_id, row, recleaned>>
    /\ UNCHANGED syncVars

\* the UPC cleaning applied to the UPC the parser emitted
Reclean ==
    /\ norm_pc = "emitted"
    /\ ~recleaned.done
    /\ recleaned' = [done |-> TRUE, upc |-> CleanUpc(TextCell(rec.upc))]
    /\ UNCHANGED <<orders_map, order_id, row, norm_pc, rec, exc>>
    /\ UNCHANGED syncVars

NextRow == ParseRow \/ Reclean

SpecUpc == InitUpc /\ [][NextRow]_vars
SpecRow == InitRow /\ [][NextRow]_vars

AllDigits(s) == \A i \in 1..Len(s) : IsDigit(s[i])
AllAsciiDigits(s) == \A i \in 1..Len(s) : IsAsciiDigit(s[i])
Emitted == norm_pc = "emitted"
RowMeta == OrderMeta(orders_map, order_id)
(***************************************************************************)
(* Properties of the row parser.                                           *)
(***************************************************************************)
\* C5: normalising a data row never raises, whatever the quantity, unit-retail
\* and total-retail cells hold: the row is emitted (or skipped for its name).
C5_NeverRaises == norm_pc # "raised"

\* C6: UPC cleaning is idempotent: cleaning the emitted UPC again yields the
\* emitted UPC.
C6_UpcIdempotent == recleaned.done => recleaned.upc = rec.upc

\* C7 as stated: the emitted upc holds only the characters 0-9, whatever the
\* raw cell held.
C7_UpcDigitsOnly == Emitted => AllAsciiDigits(rec.upc)

\* the emitted upc against the trimmed text of its cell
C7_DigitsOrKept(text) ==
    \/ AllDigits(rec.upc) /\ (rec.upc = <<>> => DigitsOf(text) \in {<<>>, <<"0">>})
    \/ /\ DigitsOf(rec.upc) = <<>>
       /\ rec.upc # <<>>
       /\ rec.upc \in {text, SubSeq(text, 1, Len(text) - 2)}

\* C7 as amended: the emitted upc is never a mix: either it holds only
\* decimal digits, those of 0-9 or of another script, or it holds no digit
\* at all and is the trimmed cell text, less one trailing ".0", kept as it is.
C7_UpcDigitsOrKept == Emitted => C7_DigitsOrKept(UpcText(row.upc))

\* a UPC cell without digits was emitted as it is
C7_Witness == Emitted /\ rec.upc # <<>> /\ DigitsOf(rec.upc) = <<>>

\* C8: allocated_cogs_per_unit is unit_retail * (total_cost / total_msrp) when
\* the order's total_msrp is positive, and 0 for every record of an order
\* whose total_msrp is not (an order absent from the metadata included),
\* regardless of unit_retail.
C8_CogsAllocation ==
    Emitted =>
        IF RowMeta.total_msrp > 0
        THEN rec.allocated_cogs_per_unit =
                 FMul(rec.unit_retail, Fin(RowMeta.total_cost, RowMeta.total_msrp))
        ELSE FEqZero(rec.allocated_cogs_per_unit)

\* C9: every emitted record has quantity >= 0, unit_retail >= 0 and
\* total_retail >= 0.
C9_NonNegative ==
    Emitted => /\ rec.quantity >= 0
               /\ FGeZero(rec.unit_retail)
               /\ FGeZero(rec.total_retail)

\* the total C10 states for the float f of the total-retail cell
C10_Total(f) ==
    IF row.total_retail.t = "none" \/ f.exc # "none" \/ FEqZero(f.v)
    THEN FMul(rec.unit_retail, FromInt(rec.quantity))
    ELSE f.v

\* C10: with unit_retail > 0, a total-retail cell that is absent, unparseable
\* or zero is emitted as unit_retail * quantity, and a cell that parses to a
\* non-zero value is emitted as that value.
C10_TotalRetail ==
    (Emitted /\ FGtZero(rec.unit_retail)) =>
        rec.total_retail = C10_Total(ToFloat(row.total_retail))

\* a zero total cell was replaced by unit_retail * quantity
C10_Witness ==
    /\ Emitted
    /\ row.total_retail = IntCell(0)
    /\ rec.unit_retail = Fin(2, 1)
    /\ rec.quantity = 2
    /\ rec.total_retail = Fin(4, 1)
(***************************************************************************)
(* main: parsing of all manifests.                                         *)
(***************************************************************************)
IsEmittedRes(res) == res.st = "emitted"
IsRaisedRes(res) == res.st = "raised"

\* the rows of one manifest in order: the records of the emitted rows, or
\* the exception of the first row that raises
CollectRows(results) ==
    IF SelectSeq(results, IsRaisedRes) # <<>>
    THEN [exc |-> Head(SelectSeq(results, IsRaisedRes)).exc, rows |-> <<>>]
    ELSE [exc |-> "none",
          rows |-> [i \in 1..Len(SelectSeq(results, IsEmittedRes)) |->
                        SelectSeq(results, IsEmittedRes)[i].rec]]

\* parse_manifest_xlsx over the data rows of one manifest
ParseRows(rows, oid, meta) ==
    CollectRows([i \in 1..Len(rows) |-> NormalizeRow(rows[i], oid, meta)])

\* all_rows.extend(rows); an exception of a manifest ends main
ExtendRows(h, t) ==
    IF h.exc # "none" THEN h
    ELSE IF t.exc # "none" THEN t
    ELSE [exc |-> "none", rows |-> h.rows \o t.rows]

\* all_rows over the manifest files in order
RECURSIVE ParseAll(_, _)
ParseAll(files, om) ==
    IF files = <<>> THEN [exc |-> "none", rows |-> <<>>]
    ELSE ExtendRows(ParseRows(Head(files).rows, Head(files).order_id,
                              OrderMeta(om, Head(files).order_id)),
                    ParseAll(Tail(files), om))

(***************************************************************************)
(* The table tl_manifest_items: a sequence of rows in insertion order.     *)
(* The columns id and created_at are not modelled.                         *)
(***************************************************************************)
Key(r) == <<r.order_id, r.listing_id, r.product_name, r.upc>>

HasKey(table, k) == \E i \in 1..Len(table) : Key(table[i]) = k

RowOf(table, k) == table[CHOOSE i \in 1..Len(table) : Key(table[i]) = k]

\* upsert_sql: INSERT ... ON CONFLICT (order_id, listing_id, product_name, upc)
\* DO UPDATE SET of the eight columns the statement lists
Upsert(table, r) ==
    IF HasKey(table, Key(r))
    THEN [i \in 1..Len(table) |->
            IF Key(table[i]) = Key(r)
            THEN [table[i] EXCEPT !.quantity = r.quantity,
                                  !.unit_retail = r.unit_retail,
                                  !.total_retail = r.total_retail,
                                  !.order_date = r.order_date,
                                  !.line_item_brands = r.line_item_brands,
                                  !.allocated_cogs_per_unit = r.allocated_cogs_per_unit,
                                  !.category = r.category,
                                  !.asin = r.asin]
            ELSE table[i]]
    ELSE Append(table, r)

RECURSIVE SumQuantity(_)
SumQuantity(table) ==
    IF table = <<>> THEN 0 ELSE Head(table).quantity + SumQuantity(Tail(table))

\* the orders in which a query without ORDER BY may read n rows
ScanOrders(n) ==
    {p \in [1..n -> 1..n] : \A i, j \in 1..n : p[i] = p[j] => i = j}

\* SUM(total_retail) from the k-th row read on: each row is added to the
\* double that the rows before it gave; an error of an addition ends the
\* query
RECURSIVE SumFrom(_, _, _, _)
SumFrom(table, order, k, acc) ==
    IF acc.exc # "none" \/ k > Len(table) THEN acc
    ELSE SumFrom(table, order, k + 1, FAdd(acc.v, table[order[k]].total_retail))

\* SUM(total_retail): the first row read starts the sum
SumRetail(table, order) ==
    IF table = <<>> THEN [exc |-> "none", v |-> Zero]
    ELSE SumFrom(table, order, 2, [exc |-> "none", v |-> table[order[1]].total_retail])

\* the five queries of the run summary, total_msrp the result of
\* SUM(total_retail); SUM over no row is NULL
Summary(table, total_msrp) ==
    [total |-> Len(table),
     order_count |-> Cardinality({table[i].order_id : i \in 1..Len(table)}),
     sums_null |-> table = <<>>,
     total_items |-> SumQuantity(table),
     total_msrp |-> total_msrp,
     unique_upcs |-> Cardinality({table[i].upc : i \in 1..Len(table)} \ {<<>>})]

(***************************************************************************)
(* Inputs of the sync specification.                                       *)
(***************************************************************************)
\* totals of 0.1, 0.2 and 0.3 in the rows of three identities
Row1 == [BaseRow EXCEPT !.total_retail = FloatCell(Fin(1, 10))]
\* the largest double, (2^53 - 1) * 2^971
MaxFloat == [k |-> "fin", neg |-> FALSE,
             m |-> <<1, 9, 9, 0, 4, 7, 4, 5, 2, 9, 9, 1, 7, 0, 0, 9>>, e |-> 971]

\* the identity of Row1 with other values in the remaining columns
Row2 == [Row1 EXCEPT !.listing_title = TextCell(<<"n", "e", "w">>),
                        !.category = TextCell(<<"c", "2">>),
                        !.asin = TextCell(<<"B", "0">>),
                        !.quantity = IntCell(2),
                        !.total_retail = FloatCell(MaxFloat)]
Row3 == [BaseRow EXCEPT !.listing_id = TextCell(<<"L", "2">>),
                        !.upc = TextCell(<<"2", ".", "0">>),
                        !.unit_retail = FloatCell(Fin(1, 2)),
                        !.total_retail = FloatCell(Fin(1, 5))]
Row4 == [BaseRow EXCEPT !.upc = IntCell(4),
                        !.total_retail = TextCell(<<"0", ".", "3">>)]
RowMax == [BaseRow EXCEPT !.upc = IntCell(5),
                          !.total_retail = FloatCell(MaxFloat)]
RowBlank == [BaseRow EXCEPT !.product_name = TextCell(<<" ">>)]
RowInf == [BaseRow EXCEPT !.quantity = TextCell(<<"i", "n", "f">>)]
SyncRows == {Row1, Row2, Row3}

\* the data rows of a manifest, each of SyncRows at most once and MaxBatch
\* rows in all manifests together
DistinctRows(k) ==
    {r \in [1..k -> SyncRows] : \A i, j \in 1..k : r[i] = r[j] => i = j}

RowSeqs(n) == UNION {DistinctRows(k) : k \in 0..n}

\* the one data row of the second manifest: kept, skipped, or raising
LastRows == {Row4, RowMax, RowBlank, RowInf}

File(o, rows) == [order_id |-> o, rows |-> rows]

\* no file, the file of order A, or the files of orders A and B in sorted
\* order
ManifestSets ==
    {<<>>}
    \cup {<<File("A", r)>> : r \in RowSeqs(MaxBatch)}
    \cup {<<File("A", r), File("B", <<x>>)>> : r \in RowSeqs(MaxBatch - 1), x \in LastRows}

Init ==
    /\ orders_map \in {om \in OrdersMaps : om["A"].total_cost = 1 /\ om["A"].total_msrp = 2}
    /\ order_id = "A"
    /\ row = BaseRow
    /\ norm_pc = "idle"
    /\ rec = NoRec
    /\ exc = "none"
    /\ recleaned = NotCleaned
    /\ manifests \in ManifestSets
    /\ all_rows = <<>>
    /\ store = <<>>
    /\ work = <<>>
    /\ idx = 1
    /\ pc = "start"
    /\ inserted = 0
    /\ errors = 0
    /\ attempts = <<>>
    /\ succeeded = {}
    /\ run = 0
    /\ summaries = <<>>
    /\ prev_store = <<>>
    /\ failures = 0

(***************************************************************************)
(* main.                                                                   *)
(***************************************************************************)
\* main up to the upsert loop: find the files, connect, create the table,
\* parse every manifest
Parsed(parsed) ==
    /\ all_rows' = parsed.rows
    /\ attempts' = [k \in 1..Len(parsed.rows) |-> 0]
    /\ pc' = IF parsed.exc # "none" THEN "crashed"
             ELSE IF parsed.rows = <<>> THEN "done"
             ELSE "upsert"

StartRun ==
    /\ pc \in {"start", "done"}
    /\ run < MaxRuns
    /\ run' = run + 1
    /\ prev_store' = store
    /\ Parsed(IF manifests = <<>> THEN [exc |-> "none", rows |-> <<>>]
              ELSE ParseAll(manifests, orders_map))
    /\ work' = store
    /\ idx' = 1
    /\ inserted' = 0
    /\ errors' = 0
    /\ succeeded' = {}
    /\ UNCHANGED <<store, summaries, failures, orders_map, manifests>>
    /\ UNCHANGED rowVars

\* cur.execute(upsert_sql, row) returns
ExecuteOk ==
    /\ pc = "upsert"
    /\ idx <= Len(all_rows)
    /\ work' = Upsert(work, all_rows[idx])
    /\ inserted' = inserted + 1
    /\ attempts' = [attempts EXCEPT ![idx] = @ + 1]
    /\ succeeded' = succeeded \cup {idx}
    /\ idx' = idx + 1
    /\ UNCHANGED <<pc, errors, store, all_rows, run, summaries, prev_store,
                   failures, orders_map, manifests>>
    /\ UNCHANGED rowVars

\* cur.execute raises: count the error and roll the transaction back
ExecuteFail ==
    /\ pc = "upsert"
    /\ idx <= Len(all_rows)
    /\ failures < MaxFailures
    /\ failures' = failures + 1
    /\ errors' = errors + 1
    /\ attempts' = [attempts EXCEPT ![idx] = @ + 1]
    /\ work' = store
    /\ pc' = "retry"
    /\ UNCHANGED <<idx, inserted, succeeded, store, all_rows, run, summaries,
                   prev_store, orders_map, manifests>>
    /\ UNCHANGED rowVars

\* the retry loses the decrement of errors
RetryOk_NoDecrement ==
    /\ pc = "retry"
    /\ work' = Upsert(work, all_rows[idx])
    /\ inserted' = inserted + 1
    /\ attempts' = [attempts EXCEPT ![idx] = @ + 1]
    /\ succeeded' = succeeded \cup {idx}
    /\ idx' = idx + 1
    /\ pc' = "upsert"
    /\ UNCHANGED <<errors, store, all_rows, run, summaries, prev_store, failures,
                   orders_map, manifests>>
    /\ UNCHANGED rowVars

\* the second cur.execute returns
RetryOk ==
    /\ pc = "retry"
    /\ work' = Upsert(work, all_rows[idx])
    /\ inserted' = inserted + 1
    /\ errors' = errors - 1
    /\ attempts' = [attempts EXCEPT ![idx] = @ + 1]
    /\ succeeded' = succeeded \cup {idx}
    /\ idx' = idx + 1
    /\ pc' = "upsert"
    /\ UNCHANGED <<store, all_rows, run, summaries, prev_store, failures,
                   orders_map, manifests>>
    /\ UNCHANGED rowVars

\* the second cur.execute raises: pass
RetryFail ==
    /\ pc = "retry"
    /\ failures < MaxFailures
    /\ failures' = failures + 1
    /\ attempts' = [attempts EXCEPT ![idx] = @ + 1]
    /\ idx' = idx + 1
    /\ pc' = "upsert"
    /\ UNCHANGED <<work, inserted, errors, succeeded, store, all_rows, run,
                   summaries, prev_store, orders_map, manifests>>
    /\ UNCHANGED rowVars

\* conn.commit() after the loop
Commit ==
    /\ pc = "upsert"
    /\ idx > Len(all_rows)
    /\ store' = work
    /\ pc' = "verify"
    /\ UNCHANGED <<work, idx, inserted, errors, attempts, succeeded, all_rows, run,
                   summaries, prev_store, failures, orders_map, manifests>>
    /\ UNCHANGED rowVars

\* the summary is printed, or the exception of cur.execute ends main after
\* the commit and before any line of the summary
Reported(sum) ==
    IF sum.exc # "none" THEN summaries' = summaries /\ pc' = "crashed"
    ELSE summaries' = Append(summaries, Summary(store, sum.v)) /\ pc' = "done"

\* the queries of the run summary: no query has an ORDER BY, so the rows
\* are read in any order
Verify ==
    /\ pc = "verify"
    /\ \E order \in ScanOrders(Len(store)) : Reported(SumRetail(store, order))
    /\ UNCHANGED <<store, work, idx, inserted, errors, attempts, succeeded,
                   all_rows, run, prev_store, failures, orders_map, manifests>>
    /\ UNCHANGED rowVars

Next ==
    \/ StartRun
    \/ ExecuteOk
    \/ ExecuteFail
    \/ RetryOk
    \/ RetryFail
    \/ Commit
    \/ Verify

Spec == Init /\ [][Next]_vars
(***************************************************************************)
(* Properties of the upsert loop.                                          *)
(***************************************************************************)
NonKey(r) == <<r.listing_title, r.category, r.asin, r.quantity, r.unit_retail,
               r.total_retail, r.order_date, r.line_item_brands,
               r.allocated_cogs_per_unit>>

NoDuplicateKeys(table) ==
    \A i, j \in 1..Len(table) : Key(table[i]) = Key(table[j]) => i = j

RowSet(table) == {table[i] : i \in 1..Len(table)}

\* C1: an upsert of a record whose identity tuple is already stored
\* overwrites every non-key field of the stored row with the incoming value
\* and creates no second row.
C1_UpsertOverwritesAll ==
    [][(/\ pc \in {"upsert", "retry"}
        /\ idx <= Len(all_rows)
        /\ inserted' = inserted + 1
        /\ HasKey(work, Key(all_rows[idx])))
       => /\ Len(work') = Len(work)
          /\ NonKey(RowOf(work', Key(all_rows[idx]))) = NonKey(all_rows[idx])]_vars

\* C2: the rollback after a sink error undoes only the failing record: every
\* record of the run whose upsert succeeded is in the store after the commit.
C2_RollbackKeepsEarlier ==
    pc \in {"verify", "done"} =>
        \A k \in succeeded : HasKey(store, Key(all_rows[k]))

\* the aggregates of a summary that do not depend on the order of the rows
Counts(s) == <<s.total, s.order_count, s.sums_null, s.total_items, s.unique_upcs>>

\* the part of C3 that leaves the total retail value out: the same rows, no
\* identity tuple twice, the same counts and the same total quantity
C3_SameRowsAndCounts ==
    (pc = "done" /\ run >= 2 /\ failures = 0 /\ Len(summaries) >= 2) =>
        /\ NoDuplicateKeys(store)
        /\ Len(store) = Len(prev_store)
        /\ RowSet(store) = RowSet(prev_store)
        /\ Counts(summaries[Len(summaries)]) = Counts(summaries[Len(summaries) - 1])

C4_RetryAccounting ==
    pc \in {"upsert", "retry", "verify", "done"} =>
        LET handled == 1..(idx - 1)
        IN  /\ \A k \in 1..Len(all_rows) : attempts[k] <= 2
            /\ \A k \in handled :
                   /\ attempts[k] >= 1
                   /\ k \notin succeeded => attempts[k] = 2
            /\ inserted = Cardinality(succeeded)
            /\ errors = Cardinality(handled \ succeeded)
                           + (IF pc = "retry" THEN 1 ELSE 0)
            /\ pc \in {"verify", "done"} => inserted + errors = Len(all_rows)

\* the loop has ended with one record failed twice and one saved by its retry
C4_Witness ==
    /\ pc = "verify"
    /\ errors = 1
    /\ inserted = 1
    /\ \E k \in succeeded : attempts[k] = 2
====
